---- MODULE Spec2Model ----
(***************************************************************************)
(* A model of jsonpp: the tagged-union value (json_value.hpp), the         *)
(* recursive-descent parser (json_parser.hpp) and the serializer           *)
(* (json_serializer.hpp), with the two entry points parse and to_string    *)
(* (json.hpp).                                                             *)
(*                                                                         *)
(* Text is a sequence of bytes (naturals 0..255); position_ is the 0-based *)
(* cursor of the C++ code, so the byte under the cursor is input[pos + 1]. *)
(* integer_type payloads are integers; the int64 limits are kept as digit  *)
(* strings so that from_chars overflow is decided as the library decides   *)
(* it.  number_type payloads are decimal floating-point values m * 10^e    *)
(* (m has no trailing zero), which is exact for every literal of at most   *)
(* 15 significant digits.                                                  *)
(***************************************************************************)
EXTENDS Integers, Sequences, FiniteSets, TLC

(***************************************************************************)
(* Bounds of the checked instances.                                        *)
(***************************************************************************)
\* pieces of a text written for parse
MaxCore == 4
\* elements of an array / members of an object text in the enumerated values
MaxElems == 2

(***************************************************************************)
(* Bytes named by the character literals of the source.                    *)
(***************************************************************************)
Ch ==
    [ bs |-> 8, tab |-> 9, lf |-> 10, vt |-> 11, ff |-> 12, cr |-> 13,
      space |-> 32, quote |-> 34, plus |-> 43, comma |-> 44, minus |-> 45,
      dot |-> 46, slash |-> 47, zero |-> 48, nine |-> 57, colon |-> 58,
      A |-> 65, E |-> 69, F |-> 70, lbracket |-> 91, backslash |-> 92,
      rbracket |-> 93, a |-> 97, b |-> 98, e |-> 101, f |-> 102, l |-> 108,
      n |-> 110, r |-> 114, s |-> 115, t |-> 116, u |-> 117, x |-> 120,
      lbrace |-> 123, rbrace |-> 125 ]

Digit(k) == Ch.zero + k

\* std::nullopt of peek(): no byte under the cursor
nullopt == -1

\* std::isspace in the "C" locale
isspace(c) == c \in {Ch.space, Ch.tab, Ch.lf, Ch.vt, Ch.ff, Ch.cr}

\* std::isdigit
isdigit(c) == c >= Ch.zero /\ c <= Ch.nine

(***************************************************************************)
(* value: std::variant<null, bool, int64, double, string, array, object>.  *)
(* index is variant::index(), the position in variant_type.                *)
(***************************************************************************)
variant_index ==
    [ null_type |-> 0, boolean_type |-> 1, integer_type |-> 2,
      number_type |-> 3, string_type |-> 4, array_type |-> 5,
      object_type |-> 6 ]

\* enum class value_type, in its declared order
value_type ==
    [ null |-> 0, boolean |-> 1, number |-> 2, integer |-> 3, string |-> 4,
      array |-> 5, object |-> 6 ]

RECURSIVE Normalize(_, _)
\* the canonical form of the decimal m * 10^e; zero has no sign (-0.0 == 0.0)
Normalize(m, e) ==
    IF m = 0 THEN [m |-> 0, e |-> 0]
    ELSE IF m % 10 = 0 THEN Normalize(m \div 10, e + 1)
    ELSE [m |-> m, e |-> e]

RECURSIVE Pow10(_)
Pow10(k) == IF k <= 0 THEN 1 ELSE 10 * Pow10(k - 1)

Abs(i) == IF i < 0 THEN -i ELSE i

\* value(null_type), value(boolean_type), value(integer_type), ...
value_null == [index |-> variant_index.null_type]
value_boolean(b) == [index |-> variant_index.boolean_type, b |-> b]
value_integer(i) == [index |-> variant_index.integer_type, i |-> i]
value_number(d) == [index |-> variant_index.number_type, d |-> d]
value_string(s) == [index |-> variant_index.string_type, s |-> s]
value_array(arr) == [index |-> variant_index.array_type, arr |-> arr]
value_object(obj) == [index |-> variant_index.object_type, obj |-> obj]

\* a double given as m * 10^e
Dbl(m, e) == Normalize(m, e)

\* type(): static_cast<value_type>(data_.index())
type(v) == v.index

is_null(v) == v.index = variant_index.null_type
is_boolean(v) == v.index = variant_index.boolean_type
is_number(v) == v.index = variant_index.number_type
is_integer(v) == v.index = variant_index.integer_type
is_string(v) == v.index = variant_index.string_type
is_array(v) == v.index = variant_index.array_type
is_object(v) == v.index = variant_index.object_type

\* static_cast<number_type>(integer_type): exact below 2^53
to_number(i) == Normalize(i, 0)

\* static_cast<integer_type>(number_type): truncation toward zero
to_integer(d) ==
    IF d.e >= 0 THEN d.m * Pow10(d.e)
    ELSE IF d.m >= 0 THEN d.m \div Pow10(-d.e)
    ELSE -((-d.m) \div Pow10(-d.e))

\* an accessor's outcome: the payload, or the exception thrown
Returns(x) == [ok |-> TRUE, val |-> x]
type_exception(msg) == [ok |-> FALSE, what |-> "type_exception", msg |-> msg]
out_of_range(msg) == [ok |-> FALSE, what |-> "out_of_range", msg |-> msg]

as_boolean(v) ==
    IF ~is_boolean(v) THEN type_exception("Value is not a boolean")
    ELSE Returns(v.b)

as_integer(v) ==
    IF is_integer(v) THEN Returns(v.i)
    ELSE IF is_number(v) THEN Returns(to_integer(v.d))
    ELSE type_exception("Value is not a number")

as_number(v) ==
    IF is_number(v) THEN Returns(v.d)
    ELSE IF is_integer(v) THEN Returns(to_number(v.i))
    ELSE type_exception("Value is not a number")

as_string(v) ==
    IF ~is_string(v) THEN type_exception("Value is not a string")
    ELSE Returns(v.s)

as_array(v) ==
    IF ~is_array(v) THEN type_exception("Value is not an array")
    ELSE Returns(v.arr)

as_object(v) ==
    IF ~is_object(v) THEN type_exception("Value is not an object")
    ELSE Returns(v.obj)

(***************************************************************************)
(* object_type: std::map<std::string, value, std::less<>>, kept as the     *)
(* sequence of its entries in iteration order (ascending key).             *)
(***************************************************************************)
RECURSIVE StringLess(_, _)
\* std::less<> on std::string: lexicographic on the bytes
StringLess(s, t) ==
    IF t = <<>> THEN FALSE
    ELSE IF s = <<>> THEN TRUE
    ELSE IF Head(s) # Head(t) THEN Head(s) < Head(t)
    ELSE StringLess(Tail(s), Tail(t))

\* obj.find(key): the position of the entry, 0 for end()
map_find(obj, key) ==
    IF \E k \in 1..Len(obj) : obj[k].key = key
    THEN CHOOSE k \in 1..Len(obj) : obj[k].key = key
    ELSE 0

map_contains(obj, key) == map_find(obj, key) # 0

\* the entry (key, val) placed where the ordering puts it
map_insert(obj, key, val) ==
    LET before == SelectSeq(obj, LAMBDA en : StringLess(en.key, key))
        after == SelectSeq(obj, LAMBDA en : StringLess(key, en.key))
    IN  before \o <<[key |-> key, val |-> val]>> \o after

\* obj.emplace(key, val): inserts only when the key is absent
map_emplace(obj, key, val) ==
    IF map_contains(obj, key) THEN obj ELSE map_insert(obj, key, val)

\* obj[key] = value{}: an assignment through the subscript
map_subscript_assign(obj, key) ==
    map_insert(SelectSeq(obj, LAMBDA en : en.key # key), key, value_null)

\* obj[key]: inserts a default-constructed value (null) when the key is absent
map_subscript(obj, key) ==
    IF map_contains(obj, key) THEN obj ELSE map_insert(obj, key, value_null)

(***************************************************************************)
(* parser: input_ is the parameter input, position_ the parameter pos.     *)
(* Every operation returns Ok(value, position_ afterwards) or              *)
(* parse_exception(message, position).                                     *)
(***************************************************************************)
Ok(v, p) == [ok |-> TRUE, what |-> "value", val |-> v, pos |-> p]
parse_exception(msg, p) ==
    [ok |-> FALSE, what |-> "parse_exception", msg |-> msg, pos |-> p]
\* a parse_exception whose message names the byte that was met
parse_exception_got(msg, ch, p) ==
    [ok |-> FALSE, what |-> "parse_exception", msg |-> msg, pos |-> p,
     got |-> ch]

(***************************************************************************)
(* value{x}, as every return statement of the parser writes it.  value has *)
(* the constructor value(std::initializer_list<value>), so the braces are  *)
(* list-initialization and overload resolution takes that constructor      *)
(* whenever x converts to value, which null_type, bool, int64_t, double,   *)
(* std::string, array_type and object_type all do.  Its member initializer *)
(* data_{array_type{init}} is list-initialization again: of a vector<value>*)
(* from the one element init, which is converted to value by this same     *)
(* constructor.  The construction calls itself without end and the call    *)
(* never returns (g++ 12.2 -std=c++20: stack exhaustion, SIGSEGV).         *)
(* value(x) and value v = x use the converting constructors.               *)
(***************************************************************************)
value_list_init(x) == [ok |-> FALSE, what |-> "no_return"]

\* return value{x}; with position_ = p
construct(x, p) ==
    LET v == value_list_init(x) IN IF v.ok THEN Ok(v.val, p) ELSE v

RECURSIVE skip_whitespace(_, _)
skip_whitespace(input, pos) ==
    IF pos < Len(input) /\ isspace(input[pos + 1])
    THEN skip_whitespace(input, pos + 1)
    ELSE pos

peek(input, pos) == IF pos >= Len(input) THEN nullopt ELSE input[pos + 1]

\* consume(): the byte under the cursor, and the cursor moved past it
consume(input, pos) ==
    IF pos >= Len(input) THEN parse_exception("Unexpected end of input", pos)
    ELSE Ok(input[pos + 1], pos + 1)

\* where expect() reports a byte that is not the expected one
expect_position(pos) == pos - 1

\* the comparison in expect(), c being what consume() gave
expect_consumed(c, expected) ==
    IF ~c.ok THEN c
    ELSE IF c.val # expected
    THEN parse_exception_got("Expected '{}', got '{}'", c.val,
                             expect_position(c.pos))
    ELSE c

expect(input, pos, expected) == expect_consumed(consume(input, pos), expected)

\* input_.substr(pos, n) == literal, with the bound check before it
substr_is(input, pos, literal) ==
    /\ pos + Len(literal) <= Len(input)
    /\ SubSeq(input, pos + 1, pos + Len(literal)) = literal

lit_null == <<Ch.n, Ch.u, Ch.l, Ch.l>>
lit_true == <<Ch.t, Ch.r, Ch.u, Ch.e>>
lit_false == <<Ch.f, Ch.a, Ch.l, Ch.s, Ch.e>>

parse_null(input, pos) ==
    IF ~substr_is(input, pos, lit_null)
    THEN parse_exception("Invalid null literal", pos)
    ELSE construct(value_null, pos + 4)

parse_boolean(input, pos) ==
    IF substr_is(input, pos, lit_true) THEN construct(value_boolean(TRUE), pos + 4)
    ELSE IF substr_is(input, pos, lit_false) THEN construct(value_boolean(FALSE), pos + 5)
    ELSE parse_exception("Invalid boolean literal", pos)

(***************************************************************************)
(* std::from_chars on the text the number grammar has accepted.            *)
(***************************************************************************)
RECURSIVE DecimalValue(_)
\* the number a digit string denotes
DecimalValue(digits) ==
    IF digits = <<>> THEN 0
    ELSE 10 * DecimalValue(SubSeq(digits, 1, Len(digits) - 1))
         + (digits[Len(digits)] - Ch.zero)

RECURSIVE StripZeros(_)
StripZeros(digits) ==
    IF Len(digits) > 1 /\ Head(digits) = Ch.zero THEN StripZeros(Tail(digits))
    ELSE digits

\* the digits of numeric_limits<int64_t>::max() and of -min()
int64_max_digits ==
    <<Digit(9), Digit(2), Digit(2), Digit(3), Digit(3), Digit(7), Digit(2),
      Digit(0), Digit(3), Digit(6), Digit(8), Digit(5), Digit(4), Digit(7),
      Digit(7), Digit(5), Digit(8), Digit(0), Digit(7)>>
int64_min_digits ==
    [int64_max_digits EXCEPT ![Len(int64_max_digits)] = Digit(8)]

\* whether a digit string without leading zeros denotes more than limit does
ExceedsDigits(digits, limit) ==
    \/ Len(digits) > Len(limit)
    \/ /\ Len(digits) = Len(limit)
       /\ StringLess(limit, digits)

\* from_chars(first, last, int64_t&): ec and the value
from_chars_integer(number_str) ==
    LET neg == Head(number_str) = Ch.minus
        digits == StripZeros(IF neg THEN Tail(number_str) ELSE number_str)
        limit == IF neg THEN int64_min_digits ELSE int64_max_digits
    IN  IF ExceedsDigits(digits, limit)
        THEN [ec |-> "result_out_of_range"]
        ELSE [ec |-> "", value |->
                 IF neg THEN -DecimalValue(digits) ELSE DecimalValue(digits)]

\* the decimal exponents a double holds: numeric_limits<double>::max_exponent10
\* and the exponent of denorm_min()
dbl_max_exp10 == 308
dbl_min_exp10 == -324

RECURSIVE NumDigits(_)
NumDigits(m) == IF m < 10 THEN 1 ELSE 1 + NumDigits(m \div 10)

\* from_chars(first, last, double&) on  -?digits(.digits)?([eE][+-]?digits)?
from_chars_double(number_str) ==
    LET neg == Head(number_str) = Ch.minus
        body == IF neg THEN Tail(number_str) ELSE number_str
        IsExp(c) == c = Ch.e \/ c = Ch.E
        epos == IF \E k \in 1..Len(body) : IsExp(body[k])
                THEN CHOOSE k \in 1..Len(body) : IsExp(body[k])
                ELSE Len(body) + 1
        mant == SubSeq(body, 1, epos - 1)
        dpos == IF \E k \in 1..Len(mant) : mant[k] = Ch.dot
                THEN CHOOSE k \in 1..Len(mant) : mant[k] = Ch.dot
                ELSE Len(mant) + 1
        ipart == SubSeq(mant, 1, dpos - 1)
        fpart == SubSeq(mant, dpos + 1, Len(mant))
        etext == SubSeq(body, epos + 1, Len(body))
        eneg == etext # <<>> /\ Head(etext) = Ch.minus
        edigits == IF etext # <<>> /\ Head(etext) \in {Ch.minus, Ch.plus}
                   THEN Tail(etext) ELSE etext
        \* an exponent of more than 6 digits is out of range whatever it is
        exp10 == IF Len(StripZeros(edigits)) > 6 THEN 1000000
                 ELSE DecimalValue(edigits)
        m == DecimalValue(StripZeros(ipart \o fpart))
        e == (IF eneg THEN -exp10 ELSE exp10) - Len(fpart)
        adj == NumDigits(m) - 1 + e
    IN  IF m # 0 /\ (adj > dbl_max_exp10 \/ adj < dbl_min_exp10)
        THEN [ec |-> "result_out_of_range"]
        ELSE [ec |-> "", value |-> Dbl(IF neg THEN -m ELSE m, e)]

RECURSIVE skip_digits(_, _)
\* while (peek() && std::isdigit(*peek())) ++position_;
skip_digits(input, pos) ==
    IF isdigit(peek(input, pos)) THEN skip_digits(input, pos + 1) ELSE pos

\* the double branch of parse_number, r being what from_chars gave
parse_number_double(r, start, p) ==
    IF r.ec # "" THEN parse_exception("Failed to parse number", start)
    ELSE construct(value_number(r.value), p)

\* the integer branch with the failure reported where the cursor stands
parse_number_integer_at_cursor(r, start, p) ==
    IF r.ec # "" THEN parse_exception("Failed to parse integer", p)
    ELSE construct(value_integer(r.value), p)

\* the integer branch of parse_number, r being what from_chars gave
parse_number_integer(r, start, p) ==
    IF r.ec # "" THEN parse_exception("Failed to parse integer", start)
    ELSE construct(value_integer(r.value), p)

parse_number(input, pos) ==
    LET start == pos
        p1 == IF peek(input, pos) = Ch.minus THEN pos + 1 ELSE pos
        p2 == IF peek(input, p1) = Ch.zero THEN p1 + 1 ELSE skip_digits(input, p1)
        has_decimal == peek(input, p2) = Ch.dot
        p3 == IF has_decimal THEN skip_digits(input, p2 + 1) ELSE p2
        has_exponent == peek(input, p3) = Ch.e \/ peek(input, p3) = Ch.E
        p4 == IF has_exponent /\ peek(input, p3 + 1) \in {Ch.plus, Ch.minus}
              THEN p3 + 2 ELSE p3 + 1
        p5 == IF has_exponent THEN skip_digits(input, p4) ELSE p3
        number_str == SubSeq(input, start + 1, p5)
    IN  IF ~isdigit(peek(input, p1))
        THEN parse_exception("Invalid number", start)
        ELSE IF has_decimal /\ ~isdigit(peek(input, p2 + 1))
        THEN parse_exception("Invalid number: expected digit after '.'", p2 + 1)
        ELSE IF has_exponent /\ ~isdigit(peek(input, p4))
        THEN parse_exception("Invalid number: expected digit in exponent", p4)
        ELSE IF has_decimal \/ has_exponent
        THEN parse_number_double(from_chars_double(number_str), start, p5)
        ELSE parse_number_integer(from_chars_integer(number_str), start, p5)

(***************************************************************************)
(* parse_string: the loop of lines 203-275, one byte or escape per round.  *)
(***************************************************************************)
\* the value of a hex digit, or nullopt when the byte is none
hex_value(c) ==
    IF c >= Ch.zero /\ c <= Ch.nine THEN c - Ch.zero
    ELSE IF c >= Ch.a /\ c <= Ch.f THEN c - Ch.a + 10
    ELSE IF c >= Ch.A /\ c <= Ch.F THEN c - Ch.A + 10
    ELSE nullopt

\* the UTF-8 bytes appended for a \uXXXX code point (no surrogate pairing)
utf8_encode(codepoint) ==
    IF codepoint <= 127 THEN <<codepoint>>
    ELSE IF codepoint <= 2047
    THEN <<192 + (codepoint \div 64), 128 + (codepoint % 64)>>
    ELSE <<224 + (codepoint \div 4096), 128 + ((codepoint \div 64) % 64),
           128 + (codepoint % 64)>>

\* case 'u': four hex digits at the cursor
parse_unicode_escape(input, pos) ==
    IF pos + 4 > Len(input) THEN parse_exception("Invalid unicode escape", pos)
    ELSE LET h == [k \in 1..4 |-> hex_value(input[pos + k])]
         IN  IF \E k \in 1..4 : h[k] = nullopt
             THEN LET bad == CHOOSE k \in 1..4 :
                                /\ h[k] = nullopt
                                /\ \A j \in 1..(k - 1) : h[j] # nullopt
                  IN  parse_exception("Invalid hex digit in unicode escape",
                                      pos + bad - 1)
             ELSE Ok(utf8_encode(((h[1] * 16 + h[2]) * 16 + h[3]) * 16 + h[4]),
                     pos + 4)

\* the switch on the byte after a backslash; pos is past that byte
parse_escape(input, pos, escaped) ==
    IF escaped = Ch.quote THEN Ok(<<Ch.quote>>, pos)
    ELSE IF escaped = Ch.backslash THEN Ok(<<Ch.backslash>>, pos)
    ELSE IF escaped = Ch.slash THEN Ok(<<Ch.slash>>, pos)
    ELSE IF escaped = Ch.b THEN Ok(<<Ch.bs>>, pos)
    ELSE IF escaped = Ch.f THEN Ok(<<Ch.ff>>, pos)
    ELSE IF escaped = Ch.n THEN Ok(<<Ch.lf>>, pos)
    ELSE IF escaped = Ch.r THEN Ok(<<Ch.cr>>, pos)
    ELSE IF escaped = Ch.t THEN Ok(<<Ch.tab>>, pos)
    ELSE IF escaped = Ch.u THEN parse_unicode_escape(input, pos)
    ELSE parse_exception_got("Invalid escape sequence '\\{}'", escaped, pos - 1)

RECURSIVE parse_string_loop(_, _, _)

\* after the switch on an escape, r being the bytes it appended
parse_string_escaped(input, r, result) ==
    IF ~r.ok THEN r ELSE parse_string_loop(input, r.pos, result \o r.val)

parse_string_loop(input, pos, result) ==
    IF pos >= Len(input) THEN parse_exception("Unterminated string", pos)
    ELSE LET ch == input[pos + 1]
             p1 == pos + 1
         IN  IF ch = Ch.quote THEN construct(value_string(result), p1)
             ELSE IF ch = Ch.backslash
             THEN IF p1 >= Len(input)
                  THEN parse_exception("Unterminated escape sequence", p1)
                  ELSE parse_string_escaped(
                           input, parse_escape(input, p1 + 1, input[p1 + 1]),
                           result)
             ELSE IF ch < 32
             THEN parse_exception("Unescaped control character in string", p1 - 1)
             ELSE parse_string_loop(input, p1, Append(result, ch))

\* parse_string after expect('"'), q being what expect gave
parse_string_opened(input, q) ==
    IF ~q.ok THEN q ELSE parse_string_loop(input, q.pos, <<>>)

parse_string(input, pos) ==
    parse_string_opened(input, expect(input, pos, Ch.quote))

(***************************************************************************)
(* parse_value, parse_array, parse_object.                                 *)
(***************************************************************************)
RECURSIVE parse_value(_, _)
RECURSIVE parse_array_loop(_, _, _)
RECURSIVE parse_object_loop(_, _, _)

\* after an element's ',' and the whitespace behind it: the trailing-comma
\* check of parse_array, then the next round of its loop
parse_array_after_comma(input, pos, result) ==
    IF peek(input, pos) = Ch.rbracket
    THEN parse_exception("Trailing comma in array", pos)
    ELSE parse_array_loop(input, pos, result)

\* after result.push_back(...): the byte at p1 ends the array or separates
parse_array_separator(input, p1, result) ==
    LET ch == peek(input, p1)
    IN  IF ch = nullopt THEN parse_exception("Unterminated array", p1)
        ELSE IF ch = Ch.rbracket THEN construct(value_array(result), p1 + 1)
        ELSE IF ch = Ch.comma
        THEN parse_array_after_comma(input, skip_whitespace(input, p1 + 1),
                                     result)
        ELSE parse_exception_got("Expected ',' or ']', got '{}'", ch, p1)

\* result.push_back(parse_value()), el being what parse_value() gave
parse_array_push_back(input, el, result) ==
    IF ~el.ok THEN el
    ELSE parse_array_separator(input, skip_whitespace(input, el.pos),
                               Append(result, el.val))

\* one round of while (true) in parse_array
parse_array_loop(input, pos, result) ==
    parse_array_push_back(input, parse_value(input, pos), result)

\* parse_array after expect('['), b being what expect gave
parse_array_opened(input, b) ==
    IF ~b.ok THEN b
    ELSE LET p1 == skip_whitespace(input, b.pos)
         IN  IF peek(input, p1) = Ch.rbracket
             THEN construct(value_array(<<>>), p1 + 1)
             ELSE parse_array_loop(input, p1, <<>>)

parse_array(input, pos) ==
    parse_array_opened(input, expect(input, pos, Ch.lbracket))

\* the trailing-comma check of parse_object, then the next round of its loop
parse_object_after_comma(input, pos, result) ==
    IF peek(input, pos) = Ch.rbrace
    THEN parse_exception("Trailing comma in object", pos)
    ELSE parse_object_loop(input, pos, result)

\* after the member is stored: the byte at p1 ends the object or separates
parse_object_separator(input, p1, result) ==
    LET ch == peek(input, p1)
    IN  IF ch = nullopt THEN parse_exception("Unterminated object", p1)
        ELSE IF ch = Ch.rbrace THEN construct(value_object(result), p1 + 1)
        ELSE IF ch = Ch.comma
        THEN parse_object_after_comma(input, skip_whitespace(input, p1 + 1),
                                      result)
        ELSE parse_exception_got("Expected ',' or '}', got '{}'", ch, p1)

\* result.emplace(std::move(key), std::move(val))
parse_object_store(result, key, val) == map_emplace(result, key, val)

\* val being what parse_value() gave for the member's value
parse_object_emplace(input, key, val, result) ==
    IF ~val.ok THEN val
    ELSE parse_object_separator(input, skip_whitespace(input, val.pos),
                                parse_object_store(result, key, val.val))

\* c being what expect(':') gave
parse_object_member_value(input, key, c, result) ==
    IF ~c.ok THEN c
    ELSE parse_object_emplace(
             input, key, parse_value(input, skip_whitespace(input, c.pos)),
             result)

\* k being what parse_string() gave for the key
parse_object_colon(input, k, result) ==
    IF ~k.ok THEN k
    ELSE parse_object_member_value(
             input, as_string(k.val).val,
             expect(input, skip_whitespace(input, k.pos), Ch.colon), result)

\* the key of a member, p0 being past the whitespace before it
parse_object_key(input, p0, result) ==
    IF peek(input, p0) # Ch.quote
    THEN parse_exception("Expected string key in object", p0)
    ELSE parse_object_colon(input, parse_string(input, p0), result)

\* one round of while (true) in parse_object
parse_object_loop(input, pos, result) ==
    parse_object_key(input, skip_whitespace(input, pos), result)

\* parse_object after expect('{'), b being what expect gave
parse_object_opened(input, b) ==
    IF ~b.ok THEN b
    ELSE LET p1 == skip_whitespace(input, b.pos)
         IN  IF peek(input, p1) = Ch.rbrace
             THEN construct(value_object(<<>>), p1 + 1)
             ELSE parse_object_loop(input, p1, <<>>)

parse_object(input, pos) ==
    parse_object_opened(input, expect(input, pos, Ch.lbrace))

\* the switch of parse_value on the byte ch at p
parse_value_switch(input, p, ch) ==
    IF ch = nullopt THEN parse_exception("Unexpected end of input", p)
    ELSE IF ch = Ch.n THEN parse_null(input, p)
    ELSE IF ch = Ch.t \/ ch = Ch.f THEN parse_boolean(input, p)
    ELSE IF ch = Ch.quote THEN parse_string(input, p)
    ELSE IF ch = Ch.lbracket THEN parse_array(input, p)
    ELSE IF ch = Ch.lbrace THEN parse_object(input, p)
    ELSE IF ch = Ch.minus \/ isdigit(ch) THEN parse_number(input, p)
    ELSE parse_exception_got("Unexpected character '{}'", ch, p)

\* where parse_value looks for the first byte of the value
parse_value_start(input, pos) == skip_whitespace(input, pos)

parse_value(input, pos) ==
    parse_value_switch(input, parse_value_start(input, pos),
                       peek(input, parse_value_start(input, pos)))

\* parser::parse() after parse_value(), r being what parse_value() gave
parser_parse_end(input, r) ==
    IF ~r.ok THEN r
    ELSE LET p == skip_whitespace(input, r.pos)
         IN  IF p < Len(input)
             THEN parse_exception("Unexpected characters after JSON value", p)
             ELSE Ok(r.val, p)

\* parser::parse()
parser_parse(input) ==
    parser_parse_end(input, parse_value(input, skip_whitespace(input, 0)))

\* jsonpp::parse(json_text)
parse(json_text) == parser_parse(json_text)

(***************************************************************************)
(* serializer: a record of its three fields and of the stream oss it       *)
(* writes to; every operation returns the record afterwards.               *)
(***************************************************************************)
serializer(pretty, indent_size) ==
    [pretty_ |-> pretty, indent_size_ |-> indent_size, current_indent_ |-> 0,
     oss |-> <<>>]

\* oss << bytes
put(S, bytes) == [S EXCEPT !.oss = @ \o bytes]

Spaces(n) == [k \in 1..n |-> Ch.space]

\* write_indent with the depth left out: indent_size_ spaces at every depth
write_indent_one_level(S) ==
    IF S.pretty_ THEN put(S, Spaces(S.indent_size_)) ELSE S

write_indent(S) ==
    IF S.pretty_ THEN put(S, Spaces(S.current_indent_ * S.indent_size_)) ELSE S

write_newline(S) == IF S.pretty_ THEN put(S, <<Ch.lf>>) ELSE S

write_space(S) == IF S.pretty_ THEN put(S, <<Ch.space>>) ELSE S

RECURSIVE DigitsOf(_)
\* the decimal digits of a natural number
DigitsOf(n) ==
    IF n < 10 THEN <<Digit(n)>> ELSE Append(DigitsOf(n \div 10), Digit(n % 10))

\* oss << int64_t
int_to_chars(i) == IF i < 0 THEN <<Ch.minus>> \o DigitsOf(-i) ELSE DigitsOf(i)

Zeros(n) == [k \in 1..n |-> Ch.zero]

\* num == static_cast<int64_t>(num) && num >= min() && num <= max()
is_integral_in_range(num) ==
    /\ num.e >= 0
    /\ ~ExceedsDigits(DigitsOf(Abs(num.m)) \o Zeros(num.e),
                      IF num.m < 0 THEN int64_min_digits ELSE int64_max_digits)

\* oss << std::setprecision(17) << num  (the %.17g form of a double whose
\* shortest decimal is exact)
format_g17(num) ==
    LET sign == IF num.m < 0 THEN <<Ch.minus>> ELSE <<>>
        digits == DigitsOf(Abs(num.m))
        n == Len(digits)
        X == n - 1 + num.e
        expo == IF X < 0 THEN <<Ch.minus>> \o (IF -X < 10 THEN Zeros(1) ELSE <<>>)
                              \o DigitsOf(-X)
                ELSE <<Ch.plus>> \o (IF X < 10 THEN Zeros(1) ELSE <<>>)
                     \o DigitsOf(X)
    IN  IF X < -4 \/ X >= 17
        THEN sign \o <<Head(digits)>>
             \o (IF n > 1 THEN <<Ch.dot>> \o Tail(digits) ELSE <<>>)
             \o <<Ch.e>> \o expo
        ELSE IF num.e >= 0 THEN sign \o digits \o Zeros(num.e)
        ELSE IF n > -num.e
        THEN sign \o SubSeq(digits, 1, n + num.e) \o <<Ch.dot>>
             \o SubSeq(digits, n + num.e + 1, n)
        ELSE sign \o Zeros(1) \o <<Ch.dot>> \o Zeros(-num.e - n) \o digits

serialize_number(S, num) ==
    IF is_integral_in_range(num) THEN put(S, int_to_chars(to_integer(num)))
    ELSE put(S, format_g17(num))

hex_char(k) == IF k < 10 THEN Ch.zero + k ELSE Ch.a + (k - 10)

\* what serialize_string writes for one byte of the string
escape_char(ch) ==
    IF ch = Ch.quote THEN <<Ch.backslash, Ch.quote>>
    ELSE IF ch = Ch.backslash THEN <<Ch.backslash, Ch.backslash>>
    ELSE IF ch = Ch.bs THEN <<Ch.backslash, Ch.b>>
    ELSE IF ch = Ch.ff THEN <<Ch.backslash, Ch.f>>
    ELSE IF ch = Ch.lf THEN <<Ch.backslash, Ch.n>>
    ELSE IF ch = Ch.cr THEN <<Ch.backslash, Ch.r>>
    ELSE IF ch = Ch.tab THEN <<Ch.backslash, Ch.t>>
    ELSE IF ch < 32
    THEN <<Ch.backslash, Ch.u, Ch.zero, Ch.zero,
           hex_char(ch \div 16), hex_char(ch % 16)>>
    ELSE <<ch>>

RECURSIVE escape_chars(_)
escape_chars(str) ==
    IF str = <<>> THEN <<>> ELSE escape_char(Head(str)) \o escape_chars(Tail(str))

serialize_string(S, str) ==
    put(S, <<Ch.quote>> \o escape_chars(str) \o <<Ch.quote>>)

RECURSIVE serialize_value(_, _)
RECURSIVE serialize_elements(_, _, _)
RECURSIVE serialize_members(_, _, _)

\* the range-for of serialize_array from element k on
serialize_elements(S, arr, k) ==
    IF k > Len(arr) THEN S
    ELSE LET S1 == IF k > 1 THEN write_newline(put(S, <<Ch.comma>>)) ELSE S
         IN  serialize_elements(
                 serialize_value(write_indent(S1), arr[k]), arr, k + 1)

\* serialize_array without the --current_indent_ of line 138
serialize_array_no_decrement(S, arr) ==
    LET S1 == put(S, <<Ch.lbracket>>)
    IN  IF arr = <<>> THEN put(S1, <<Ch.rbracket>>)
        ELSE LET S2 == [write_newline(S1) EXCEPT !.current_indent_ = @ + 1]
                 S3 == serialize_elements(S2, arr, 1)
             IN  put(write_indent(write_newline(S3)), <<Ch.rbracket>>)

serialize_array(S, arr) ==
    LET S1 == put(S, <<Ch.lbracket>>)
    IN  IF arr = <<>> THEN put(S1, <<Ch.rbracket>>)
        ELSE LET S2 == [write_newline(S1) EXCEPT !.current_indent_ = @ + 1]
                 S3 == serialize_elements(S2, arr, 1)
                 S4 == [S3 EXCEPT !.current_indent_ = @ - 1]
             IN  put(write_indent(write_newline(S4)), <<Ch.rbracket>>)

\* the range-for of serialize_object from entry k on, in the map's order
serialize_members(S, obj, k) ==
    IF k > Len(obj) THEN S
    ELSE LET S1 == IF k > 1 THEN write_newline(put(S, <<Ch.comma>>)) ELSE S
             S2 == serialize_string(write_indent(S1), obj[k].key)
             S3 == write_space(put(S2, <<Ch.colon>>))
         IN  serialize_members(serialize_value(S3, obj[k].val), obj, k + 1)

serialize_object(S, obj) ==
    LET S1 == put(S, <<Ch.lbrace>>)
    IN  IF obj = <<>> THEN put(S1, <<Ch.rbrace>>)
        ELSE LET S2 == [write_newline(S1) EXCEPT !.current_indent_ = @ + 1]
                 S3 == serialize_members(S2, obj, 1)
                 S4 == [S3 EXCEPT !.current_indent_ = @ - 1]
             IN  put(write_indent(write_newline(S4)), <<Ch.rbrace>>)

\* the switch on val.type()
serialize_value(S, val) ==
    IF type(val) = value_type.null THEN put(S, lit_null)
    ELSE IF type(val) = value_type.boolean
    THEN put(S, IF as_boolean(val).val THEN lit_true ELSE lit_false)
    ELSE IF type(val) = value_type.integer
    THEN put(S, int_to_chars(as_integer(val).val))
    ELSE IF type(val) = value_type.number
    THEN serialize_number(S, as_number(val).val)
    ELSE IF type(val) = value_type.string
    THEN serialize_string(S, as_string(val).val)
    ELSE IF type(val) = value_type.array
    THEN serialize_array(S, as_array(val).val)
    ELSE serialize_object(S, as_object(val).val)

\* serializer::serialize(val): a fresh stream, the instance's fields kept
serialize(S, val) == serialize_value([S EXCEPT !.oss = <<>>], val)

\* the default indent_size of the serializer's constructor
default_indent_size == 2

\* jsonpp::to_string(val, pretty)
to_string(val, pretty) == serialize(serializer(pretty, default_indent_size), val).oss

(***************************************************************************)
(* A caller of the library: the text it parses, what parse gave, the value *)
(* it holds and works on, and what the last call returned.                 *)
(***************************************************************************)
VARIABLES
    json_text,  \* the text handed to parse
    result,     \* the outcome of the last parse
    doc,        \* the value the caller holds
    prev_doc,   \* doc as it was before the last call on it
    ret,        \* the last call on doc and what it returned or threw
    out,        \* the last rendering: the mode, the value and the text
    parts,      \* what the caller wrote into json_text, piece by piece
    ser         \* a serializer the caller keeps and calls again

vars == <<json_text, result, doc, prev_doc, ret, out, parts, ser>>

no_result == [ok |-> FALSE, what |-> "none"]
no_call == [op |-> "none"]
no_text == [rendered |-> FALSE]

\* a call that did not return has ended the program
Running == result.what # "no_return"

(***************************************************************************)
(* The inputs of the checked instances.                                    *)
(***************************************************************************)
\* a literal one above numeric_limits<int64_t>::max() + 1
too_big == [int64_max_digits EXCEPT ![Len(int64_max_digits)] = Digit(9)]

Pieces ==
    { <<Ch.lbracket>>, <<Ch.rbracket>>, <<Ch.lbrace>>, <<Ch.rbrace>>,
      <<Ch.comma>>, <<Ch.colon>>, <<Ch.space>>, <<Digit(0)>>, <<Digit(1)>>,
      <<Ch.quote>>,
      <<Ch.backslash>>, <<Ch.minus>>, <<Ch.dot>>, <<Ch.e>>, <<Ch.n>>,
      too_big }

\* a double is modelled by its exact decimal, which is what from_chars gives
\* for a literal of few digits: too_big stays out of fractions and exponents
ShortMantissa(ps) ==
    ~ /\ \E i \in DOMAIN ps : ps[i] = too_big
      /\ \E j \in DOMAIN ps : ps[j] \in {<<Ch.dot>>, <<Ch.e>>}

Keys == { <<Ch.a>>, <<Ch.b>>, <<Ch.a, Ch.b>> }

\* the text "key":val of one member with an integer value
MemberText(pr) ==
    <<Ch.quote>> \o pr.key \o <<Ch.quote, Ch.colon>> \o int_to_chars(pr.val)

RECURSIVE MembersText(_)
MembersText(ps) ==
    IF ps = <<>> THEN <<>>
    ELSE IF Len(ps) = 1 THEN MemberText(ps[1])
    ELSE MemberText(ps[1]) \o <<Ch.comma>> \o MembersText(Tail(ps))

\* the object text {"k1":v1,"k2":v2,...}
ObjectText(ps) == <<Ch.lbrace>> \o MembersText(ps) \o <<Ch.rbrace>>

PairLists ==
    UNION { [1..n -> [key : Keys, val : 1..2]] : n \in 0..(MaxElems + 1) }

\* values built by the converting constructors, push_back and operator[]
Leaves ==
    { value_null, value_boolean(TRUE), value_boolean(FALSE),
      value_integer(0), value_integer(-7), value_integer(12),
      value_number(Dbl(15, -1)), value_number(Dbl(-25, -2)),
      value_number(Dbl(2, 0)),
      value_string(<<>>), value_string(<<Ch.a>>),
      value_string(<<Ch.quote, Ch.backslash, Ch.lf, 1, 195, 169>>) }

ArraysOver(S) ==
    { value_array(xs) : xs \in UNION { [1..n -> S] : n \in 0..MaxElems } }

ObjectsOver(S) ==
    {value_object(<<>>)}
    \cup { value_object(<<[key |-> k, val |-> v]>>) :
             k \in {<<Ch.a>>, <<Ch.b>>}, v \in S }
    \cup { value_object(<<[key |-> <<Ch.a>>, val |-> v],
                          [key |-> <<Ch.b>>, val |-> w]>>) : v \in S, w \in S }

Flat == Leaves \cup ArraysOver(Leaves) \cup ObjectsOver(Leaves)

Values ==
    Flat
    \cup { value_array(<<v>>) : v \in Flat }
    \cup { value_object(<<[key |-> <<Ch.a>>, val |-> v]>>) : v \in Flat }

(***************************************************************************)
(* The calls.                                                              *)
(***************************************************************************)
\* the caller writes one more piece of the text it will parse
Write(piece) ==
    /\ Running
    /\ result = no_result
    /\ Len(parts) < MaxCore
    /\ ShortMantissa(Append(parts, piece))
    /\ parts' = Append(parts, piece)
    /\ json_text' = json_text \o piece
    /\ UNCHANGED <<result, doc, prev_doc, ret, out, ser>>

\* auto json = jsonpp::parse(json_text);
Parse ==
    /\ Running
    /\ result = no_result
    /\ result' = parse(json_text)
    /\ doc' = IF result'.ok THEN result'.val ELSE doc
    /\ UNCHANGED <<json_text, prev_doc, ret, out, parts, ser>>

\* text = jsonpp::to_string(doc, pretty);
ToStringCall(pretty) ==
    /\ Running
    /\ out' = [rendered |-> TRUE, pretty |-> pretty, val |-> doc,
               text |-> to_string(doc, pretty)]
    /\ UNCHANGED <<json_text, result, doc, prev_doc, ret, parts, ser>>

\* jsonpp::parse(text) of the text to_string gave
Reparse ==
    /\ Running
    /\ out.rendered
    /\ result = no_result
    /\ json_text' = out.text
    /\ result' = parse(out.text)
    /\ UNCHANGED <<doc, prev_doc, ret, out, parts, ser>>

\* doc.as_boolean(), doc.as_integer(), ...: the six narrowing accessors
Accessor(op) ==
    /\ Running
    /\ prev_doc' = doc
    /\ ret' = [op |-> op, outcome |->
                 CASE op = "as_boolean" -> as_boolean(doc)
                   [] op = "as_integer" -> as_integer(doc)
                   [] op = "as_number" -> as_number(doc)
                   [] op = "as_string" -> as_string(doc)
                   [] op = "as_array" -> as_array(doc)
                   [] op = "as_object" -> as_object(doc)]
    /\ UNCHANGED <<json_text, result, doc, out, parts, ser>>

Accessors ==
    {"as_boolean", "as_integer", "as_number", "as_string", "as_array",
     "as_object"}

\* doc.contains(key)
contains(v, key) ==
    IF ~is_object(v) THEN Returns(FALSE) ELSE Returns(map_contains(v.obj, key))

\* doc.at(key)
at(v, key) ==
    IF ~is_object(v) THEN type_exception("Value is not an object")
    ELSE IF map_find(v.obj, key) = 0 THEN out_of_range("Key '{}' not found")
    ELSE Returns(v.obj[map_find(v.obj, key)].val)

Contains(key) ==
    /\ Running
    /\ prev_doc' = doc
    /\ ret' = [op |-> "contains", key |-> key, outcome |-> contains(doc, key)]
    /\ UNCHANGED <<json_text, result, doc, out, parts, ser>>

At(key) ==
    /\ Running
    /\ prev_doc' = doc
    /\ ret' = [op |-> "at", key |-> key, outcome |-> at(doc, key)]
    /\ UNCHANGED <<json_text, result, doc, out, parts, ser>>

\* doc[key]: operator[](std::string_view)
Subscript(key) ==
    /\ Running
    /\ prev_doc' = doc
    /\ IF ~is_object(doc)
       THEN /\ ret' = [op |-> "operator[]", key |-> key,
                       outcome |-> type_exception("Value is not an object")]
            /\ doc' = doc
       ELSE LET obj == map_subscript(doc.obj, key)
            IN  /\ doc' = value_object(obj)
                /\ ret' = [op |-> "operator[]", key |-> key,
                           outcome |-> Returns(obj[map_find(obj, key)].val)]
    /\ UNCHANGED <<json_text, result, out, parts, ser>>

\* text = ser.serialize(v); on the serializer the caller keeps
Serialize(v) ==
    /\ Running
    /\ ser' = [serialize(ser, v) EXCEPT !.oss = <<>>]
    /\ out' = [rendered |-> TRUE, pretty |-> ser.pretty_, val |-> v,
               text |-> serialize(ser, v).oss]
    /\ ret' = [op |-> "serialize", again |-> out.rendered]
    /\ UNCHANGED <<json_text, result, doc, prev_doc, parts>>

(***************************************************************************)
(* The specifications.                                                     *)
(***************************************************************************)
Idle ==
    /\ result = no_result
    /\ prev_doc = value_null
    /\ ret = no_call
    /\ out = no_text
    /\ ser = serializer(FALSE, default_indent_size)

\* parse on any text of at most MaxCore pieces
InitParse ==
    /\ json_text = <<>>
    /\ doc = value_null
    /\ parts = <<>>
    /\ Idle

NextParse ==
    \/ \E piece \in Pieces : Write(piece)
    \/ Parse

SpecParse == InitParse /\ [][NextParse]_vars

\* an object text with the members parts, and an object filled key by key
InitObject ==
    /\ parts \in PairLists
    /\ json_text = ObjectText(parts)
    /\ doc = value_object(<<>>)
    /\ Idle

NextObject ==
    \/ Parse
    \/ \E key \in Keys : Subscript(key)
    \/ \E pretty \in BOOLEAN : ToStringCall(pretty)

SpecObject == InitObject /\ [][NextObject]_vars

\* a value rendered and the rendering parsed again
InitRender ==
    /\ doc \in Values
    /\ json_text = <<>>
    /\ parts = <<>>
    /\ Idle

NextRender ==
    \/ \E pretty \in BOOLEAN : ToStringCall(pretty)
    \/ Reparse

SpecRender == InitRender /\ [][NextRender]_vars

\* one serializer, of either mode and of a small indent size, called again
\* and again on the value the caller holds and on an array that holds it
IndentSizes == {1, default_indent_size}

InitSerializer ==
    /\ ser \in { serializer(pretty, n) : pretty \in BOOLEAN, n \in IndentSizes }
    /\ doc \in Values
    /\ json_text = <<>>
    /\ parts = <<>>
    /\ result = no_result
    /\ prev_doc = value_null
    /\ ret = no_call
    /\ out = no_text

NextSerializer == \E v \in {doc, value_array(<<doc>>)} : Serialize(v)

SpecSerializer == InitSerializer /\ [][NextSerializer]_vars

\* the accessors and the keyed operations on a value, and on parse("123")
text_123 == <<Digit(1), Digit(2), Digit(3)>>

InitValue ==
    /\ doc \in Flat
    /\ json_text = text_123
    /\ parts = <<>>
    /\ Idle

NextValue ==
    \/ Parse
    \/ \E op \in Accessors : Accessor(op)
    \/ \E key \in Keys : Contains(key)
    \/ \E key \in Keys : At(key)
    \/ \E key \in Keys : Subscript(key)

SpecValue == InitValue /\ [][NextValue]_vars

Spec == SpecValue

(***************************************************************************)
(* The JSON grammar, read off RFC 8259 and not off the parser: the texts   *)
(* that are whitespace, one value, whitespace.  Positions are 1-based, 0   *)
(* says that no value starts at the position.                              *)
(***************************************************************************)
ByteAt(t, i) == IF i >= 1 /\ i <= Len(t) THEN t[i] ELSE nullopt

RefWhitespace == {Ch.space, Ch.tab, Ch.lf, Ch.cr}

RECURSIVE RefSkipWs(_, _)
RefSkipWs(t, i) ==
    IF ByteAt(t, i) \in RefWhitespace THEN RefSkipWs(t, i + 1) ELSE i

RECURSIVE RefDigits(_, _)
RefDigits(t, i) == IF isdigit(ByteAt(t, i)) THEN RefDigits(t, i + 1) ELSE i

RefFraction(t, i) ==
    IF i = 0 \/ ByteAt(t, i) # Ch.dot THEN i
    ELSE IF isdigit(ByteAt(t, i + 1)) THEN RefDigits(t, i + 1) ELSE 0

RefExponent(t, i) ==
    IF i = 0 \/ ByteAt(t, i) \notin {Ch.e, Ch.E} THEN i
    ELSE LET j == IF ByteAt(t, i + 1) \in {Ch.plus, Ch.minus} THEN i + 2
                  ELSE i + 1
         IN  IF isdigit(ByteAt(t, j)) THEN RefDigits(t, j) ELSE 0

RefInt(t, i) ==
    IF ByteAt(t, i) = Ch.zero THEN i + 1
    ELSE IF isdigit(ByteAt(t, i)) THEN RefDigits(t, i)
    ELSE 0

RefNumber(t, i) ==
    RefExponent(t, RefFraction(t,
        RefInt(t, IF ByteAt(t, i) = Ch.minus THEN i + 1 ELSE i)))

RefSimpleEscapes ==
    {Ch.quote, Ch.backslash, Ch.slash, Ch.b, Ch.f, Ch.n, Ch.r, Ch.t}

RECURSIVE RefStringBody(_, _)
RefStringBody(t, i) ==
    IF i > Len(t) THEN 0
    ELSE IF t[i] = Ch.quote THEN i + 1
    ELSE IF t[i] = Ch.backslash
    THEN IF ByteAt(t, i + 1) \in RefSimpleEscapes THEN RefStringBody(t, i + 2)
         ELSE IF /\ ByteAt(t, i + 1) = Ch.u
                 /\ \A k \in 2..5 : /\ ByteAt(t, i + k) # nullopt
                                    /\ hex_value(ByteAt(t, i + k)) # nullopt
         THEN RefStringBody(t, i + 6)
         ELSE 0
    ELSE IF t[i] < 32 THEN 0
    ELSE RefStringBody(t, i + 1)

RefString(t, i) == IF ByteAt(t, i) = Ch.quote THEN RefStringBody(t, i + 1) ELSE 0

RefLiteral(t, i, literal) ==
    IF /\ i + Len(literal) - 1 <= Len(t)
       /\ SubSeq(t, i, i + Len(literal) - 1) = literal
    THEN i + Len(literal)
    ELSE 0

RECURSIVE RefValue(_, _)
RECURSIVE RefElements(_, _)
RECURSIVE RefMembers(_, _)

RefNextElement(t, i) ==
    IF i = 0 THEN 0
    ELSE IF ByteAt(t, i) = Ch.rbracket THEN i + 1
    ELSE IF ByteAt(t, i) = Ch.comma THEN RefElements(t, RefSkipWs(t, i + 1))
    ELSE 0

RefElements(t, i) == RefNextElement(t, RefSkipWs(t, RefValue(t, i)))

RefNextMember(t, i) ==
    IF i = 0 THEN 0
    ELSE IF ByteAt(t, i) = Ch.rbrace THEN i + 1
    ELSE IF ByteAt(t, i) = Ch.comma THEN RefMembers(t, RefSkipWs(t, i + 1))
    ELSE 0

RefMemberValue(t, i) ==
    IF i = 0 \/ ByteAt(t, i) # Ch.colon THEN 0
    ELSE RefNextMember(t, RefSkipWs(t, RefValue(t, RefSkipWs(t, i + 1))))

RefMembers(t, i) == RefMemberValue(t, RefSkipWs(t, RefString(t, i)))

RefAfterOpen(t, i, close) ==
    IF ByteAt(t, i) = close THEN i + 1
    ELSE IF close = Ch.rbracket THEN RefElements(t, i)
    ELSE RefMembers(t, i)

RefValue(t, i) ==
    IF i = 0 THEN 0
    ELSE IF ByteAt(t, i) = Ch.lbracket
    THEN RefAfterOpen(t, RefSkipWs(t, i + 1), Ch.rbracket)
    ELSE IF ByteAt(t, i) = Ch.lbrace
    THEN RefAfterOpen(t, RefSkipWs(t, i + 1), Ch.rbrace)
    ELSE IF ByteAt(t, i) = Ch.quote THEN RefString(t, i)
    ELSE IF ByteAt(t, i) = Ch.minus \/ isdigit(ByteAt(t, i)) THEN RefNumber(t, i)
    ELSE IF ByteAt(t, i) = Ch.n THEN RefLiteral(t, i, lit_null)
    ELSE IF ByteAt(t, i) = Ch.t THEN RefLiteral(t, i, lit_true)
    ELSE IF ByteAt(t, i) = Ch.f THEN RefLiteral(t, i, lit_false)
    ELSE 0

\* where the first complete value of t ends, 0 when t starts with none
FirstValueEnd(t) == RefValue(t, RefSkipWs(t, 1))

\* whitespace, one complete value, whitespace
IsJsonText(t) ==
    /\ FirstValueEnd(t) # 0
    /\ RefSkipWs(t, FirstValueEnd(t)) = Len(t) + 1

\* empty or whitespace only
IsBlank(t) == RefSkipWs(t, 1) = Len(t) + 1

\* a non-whitespace byte after the first complete value
HasTrailingBytes(t) ==
    /\ FirstValueEnd(t) # 0
    /\ RefSkipWs(t, FirstValueEnd(t)) <= Len(t)

RECURSIVE OpenAt(_, _, _, _)
\* scanning t from byte i on: whether a string or a container is open at byte
\* upto; in_string and depth are the state of the scan before byte i
OpenAt(t, i, upto, st) ==
    IF i >= upto \/ i > Len(t) THEN st
    ELSE IF st.in_string
    THEN IF t[i] = Ch.backslash THEN OpenAt(t, i + 2, upto, st)
         ELSE OpenAt(t, i + 1, upto, [st EXCEPT !.in_string = t[i] # Ch.quote])
    ELSE IF t[i] = Ch.quote
    THEN OpenAt(t, i + 1, upto, [st EXCEPT !.in_string = TRUE])
    ELSE IF t[i] \in {Ch.lbracket, Ch.lbrace}
    THEN OpenAt(t, i + 1, upto, [st EXCEPT !.depth = @ + 1])
    ELSE IF t[i] \in {Ch.rbracket, Ch.rbrace}
    THEN OpenAt(t, i + 1, upto, [st EXCEPT !.depth = @ - 1])
    ELSE OpenAt(t, i + 1, upto, st)

ScanState(t, upto) == OpenAt(t, 1, upto, [in_string |-> FALSE, depth |-> 0])

\* the text ends before a string or a container it opened is closed
EndsUnclosed(t) ==
    ScanState(t, Len(t) + 1).in_string \/ ScanState(t, Len(t) + 1).depth > 0

\* a comma of a container followed, after whitespace, by ] or }
HasTrailingComma(t) ==
    \E i \in 1..Len(t) :
        /\ t[i] = Ch.comma
        /\ ~ScanState(t, i).in_string
        /\ ScanState(t, i).depth > 0
        /\ ByteAt(t, RefSkipWs(t, i + 1)) \in {Ch.rbracket, Ch.rbrace}

Parsed == result # no_result
Threw == result.what = "parse_exception"

(***************************************************************************)
(* Properties of parse on arbitrary text (SpecParse).                      *)
(***************************************************************************)
\* C5: parse returns a value only for whitespace, one complete JSON value,
\* whitespace; on the empty text, a text of whitespace only, a text that ends
\* before a string or a container is closed, and a text with a non-whitespace
\* byte after its first complete value, it throws a parse_exception and
\* hands the caller nothing.
C5_ValueOnlyForCompleteText ==
    Parsed =>
        /\ result.ok => IsJsonText(json_text)
        /\ (\/ IsBlank(json_text)
            \/ EndsUnclosed(json_text)
            \/ HasTrailingBytes(json_text)) => Threw /\ doc = value_null

\* C6: a text in which a comma of an array or an object is followed, after
\* optional whitespace, by the closing ] or } is never parsed: parse throws a
\* parse_exception.
C6_TrailingCommaRejected ==
    Parsed /\ HasTrailingComma(json_text) => Threw

\* the messages that name the byte that was met
UnexpectedByteMessages ==
    { "Unexpected character '{}'", "Expected ',' or ']', got '{}'",
      "Expected ',' or '}', got '{}'" }

\* the messages thrown where the cursor has reached the end of the text
EndOfInputMessages ==
    { "Unexpected end of input", "Unterminated string",
      "Unterminated escape sequence", "Unterminated array",
      "Unterminated object" }

\* the messages of std::from_chars failing
ConversionMessages == {"Failed to parse integer", "Failed to parse number"}

\* the messages of a digit missing after '.' or in the exponent
DigitExpectedMessages ==
    { "Invalid number: expected digit after '.'",
      "Invalid number: expected digit in exponent" }

NumberBytes == {Ch.minus, Ch.plus, Ch.dot, Ch.e, Ch.E} \cup (Ch.zero..Ch.nine)

\* byte offset p is the first byte of a number literal of t
NumberStartsAt(t, p) ==
    /\ p < Len(t)
    /\ t[p + 1] = Ch.minus \/ isdigit(t[p + 1])
    /\ p = 0 \/ t[p] \notin NumberBytes

\* the rest of t from offset p is a proper prefix of literal
TruncatedLiteral(t, p, literal) ==
    /\ Len(t) - p < Len(literal)
    /\ SubSeq(t, p + 1, Len(t)) = SubSeq(literal, 1, Len(t) - p)

\* the text ended where the grammar wanted more bytes
PrematureEnd ==
    \/ result.msg \in EndOfInputMessages
    \/ result.msg = "Invalid null literal"
         /\ TruncatedLiteral(json_text, result.pos, lit_null)
    \/ result.msg = "Invalid boolean literal"
         /\ \/ TruncatedLiteral(json_text, result.pos, lit_true)
            \/ TruncatedLiteral(json_text, result.pos, lit_false)
    \/ result.msg = "Invalid number"
         /\ json_text[result.pos + 1] = Ch.minus
         /\ result.pos + 1 = Len(json_text)
    \/ result.msg = "Expected string key in object"
         /\ result.pos = Len(json_text)
    \/ result.msg = "Invalid unicode escape"

RECURSIVE HasIntegralNumber(_)
\* whether a number-tagged leaf of v holds a double without fraction
HasIntegralNumber(v) ==
    IF is_number(v) THEN v.d.e >= 0
    ELSE IF is_array(v)
    THEN \E k \in 1..Len(v.arr) : HasIntegralNumber(v.arr[k])
    ELSE IF is_object(v)
    THEN \E k \in 1..Len(v.obj) : HasIntegralNumber(v.obj[k].val)
    ELSE FALSE

\* C1: for a value v without an integral number-tagged leaf (and without a
\* string that needs a surrogate pair), parse(to_string(v, false)) returns a
\* value equal to v at every node.
C1_RoundTrip ==
    /\ Parsed
    /\ json_text = to_string(doc, FALSE)
    /\ ~HasIntegralNumber(doc)
    => result.ok /\ result.val = doc

HasPoint(text) == \E k \in 1..Len(text) : text[k] \in {Ch.dot, Ch.e, Ch.E}

\* C3: an integer-tagged value is rendered as the decimal form of that
\* integer; a number-tagged value is rendered without a decimal point only
\* when the double equals its truncation and fits int64_t, and one with a
\* fraction is rendered with its fractional digits, never as the integer
\* literal of its truncation.
C3_NumberRendering ==
    out.rendered =>
        /\ is_integer(out.val) => out.text = int_to_chars(out.val.i)
        /\ is_number(out.val) =>
              /\ ~HasPoint(out.text) => is_integral_in_range(out.val.d)
              /\ out.val.d.e < 0 =>
                    /\ HasPoint(out.text)
                    /\ out.text # int_to_chars(to_integer(out.val.d))

RECURSIVE StripWhitespace(_, _, _)
\* t from byte i on without the whitespace that is outside strings
StripWhitespace(t, i, in_string) ==
    IF i > Len(t) THEN <<>>
    ELSE IF in_string /\ t[i] = Ch.backslash
    THEN SubSeq(t, i, i + 1) \o StripWhitespace(t, i + 2, TRUE)
    ELSE IF t[i] = Ch.quote
    THEN <<t[i]>> \o StripWhitespace(t, i + 1, ~in_string)
    ELSE IF ~in_string /\ t[i] \in RefWhitespace
    THEN StripWhitespace(t, i + 1, in_string)
    ELSE <<t[i]>> \o StripWhitespace(t, i + 1, in_string)

\* C4: for every value v, parse(to_string(v, true)) and
\* parse(to_string(v, false)) both return, and return equal values; the
\* pretty text is the compact text with whitespace between its tokens.
C4_PrettyIsWhitespaceOnly ==
    Parsed =>
        /\ StripWhitespace(to_string(doc, TRUE), 1, FALSE)
              = StripWhitespace(to_string(doc, FALSE), 1, FALSE)
        /\ parse(to_string(doc, TRUE)).ok
        /\ parse(to_string(doc, FALSE)).ok
        /\ parse(to_string(doc, TRUE)).val = parse(to_string(doc, FALSE)).val

(***************************************************************************)
(* Properties of objects: parsed from text and filled key by key           *)
(* (SpecObject).                                                           *)
(***************************************************************************)
HasDuplicateKey(ps) ==
    \E i, j \in 1..Len(ps) : i < j /\ ps[i].key = ps[j].key

\* the last member of ps with the key
LastWith(ps, key) ==
    CHOOSE i \in 1..Len(ps) :
        /\ ps[i].key = key
        /\ \A j \in (i + 1)..Len(ps) : ps[j].key # key

\* C2: when an object text holds a key more than once, parse returns an
\* object that maps every key to the value of the key's last occurrence in
\* the text.
C2_LastWriteWins ==
    Parsed /\ HasDuplicateKey(parts) =>
        /\ result.ok
        /\ is_object(result.val)
        /\ \A k \in 1..Len(parts) :
              /\ map_contains(result.val.obj, parts[k].key)
              /\ at(result.val, parts[k].key)
                    = Returns(value_integer(parts[LastWith(parts, parts[k].key)].val))

RECURSIVE QuotedStrings(_, _)
\* the strings of a text whose strings hold no escapes, in text order
QuotedStrings(t, i) ==
    IF i > Len(t) THEN <<>>
    ELSE IF t[i] # Ch.quote THEN QuotedStrings(t, i + 1)
    ELSE LET j == CHOOSE j \in (i + 1)..Len(t) :
                      /\ t[j] = Ch.quote
                      /\ \A m \in (i + 1)..(j - 1) : t[m] # Ch.quote
         IN  <<SubSeq(t, i + 1, j - 1)>> \o QuotedStrings(t, j + 1)

Ascending(keys) ==
    \A k \in 1..(Len(keys) - 1) : StringLess(keys[k], keys[k + 1])

KeysOf(obj) == [k \in 1..Len(obj) |-> obj[k].key]

\* C9: the entries of an object are iterated and rendered in ascending key
\* order, whatever the order of the keys in the parsed text or of their
\* insertion: parse of an object text returns an object that iterates its
\* keys ascending, and to_string of an object emits its keys ascending.
C9_AscendingKeyOrder ==
    /\ Parsed =>
          /\ result.ok
          /\ is_object(result.val)
          /\ Ascending(KeysOf(result.val.obj))
          /\ {parts[k].key : k \in 1..Len(parts)}
                = {result.val.obj[k].key : k \in 1..Len(result.val.obj)}
    /\ out.rendered /\ is_object(out.val) =>
          /\ QuotedStrings(out.text, 1) = KeysOf(out.val.obj)
          /\ Ascending(QuotedStrings(out.text, 1))

(***************************************************************************)
(* Properties of the accessors and of the keyed operations (SpecValue).    *)
(***************************************************************************)
\* whether the accessor op succeeds on v, and what it returns then
Narrows(op, v) ==
    CASE op = "as_boolean" -> is_boolean(v)
      [] op = "as_integer" -> is_integer(v) \/ is_number(v)
      [] op = "as_number" -> is_number(v) \/ is_integer(v)
      [] op = "as_string" -> is_string(v)
      [] op = "as_array" -> is_array(v)
      [] op = "as_object" -> is_object(v)

Payload(op, v) ==
    CASE op = "as_boolean" -> v.b
      [] op = "as_integer" -> IF is_integer(v) THEN v.i ELSE to_integer(v.d)
      [] op = "as_number" -> IF is_number(v) THEN v.d ELSE to_number(v.i)
      [] op = "as_string" -> v.s
      [] op = "as_array" -> v.arr
      [] op = "as_object" -> v.obj

\* C7: a narrowing accessor returns the payload when the tag matches and
\* throws a type_exception otherwise, except that as_integer truncates a
\* number-tagged value and as_number widens an integer-tagged one; no accessor
\* changes the value; parse("123") returns a value whose as_integer() is 123,
\* whose as_number() is 123.0 and whose as_string() throws a type_exception.
C7_NarrowingAccessors ==
    /\ ret.op \in Accessors =>
          /\ doc = prev_doc
          /\ IF Narrows(ret.op, prev_doc)
             THEN ret.outcome = Returns(Payload(ret.op, prev_doc))
             ELSE ~ret.outcome.ok /\ ret.outcome.what = "type_exception"
    /\ Parsed =>
          /\ result.ok
          /\ as_integer(result.val) = Returns(123)
          /\ as_number(result.val) = Returns(Dbl(123, 0))
          /\ as_string(result.val).what = "type_exception"

HasKey(v, key) == is_object(v) /\ \E k \in 1..Len(v.obj) : v.obj[k].key = key

Entries(v) == {v.obj[k] : k \in 1..Len(v.obj)}

\* C8: of the keyed operations only operator[] with an absent key changes an
\* object, and it adds exactly the entry key -> null; contains never throws,
\* changes nothing and is false on a value that is no object; at throws a
\* not-found error on an absent key and changes nothing; operator[] with a
\* present key returns the entry and changes nothing.
C8_KeyedOperationsFrame ==
    /\ ret.op = "contains" =>
          /\ doc = prev_doc
          /\ ret.outcome = Returns(HasKey(prev_doc, ret.key))
    /\ ret.op = "at" =>
          /\ doc = prev_doc
          /\ is_object(prev_doc) /\ ~HasKey(prev_doc, ret.key) =>
                ~ret.outcome.ok /\ ret.outcome.what = "out_of_range"
          /\ HasKey(prev_doc, ret.key) =>
                /\ ret.outcome.ok
                /\ [key |-> ret.key, val |-> ret.outcome.val] \in Entries(prev_doc)
    /\ ret.op = "operator[]" /\ ~is_object(prev_doc) => doc = prev_doc
    /\ ret.op = "operator[]" /\ HasKey(prev_doc, ret.key) =>
          /\ doc = prev_doc
          /\ ret.outcome.ok
          /\ [key |-> ret.key, val |-> ret.outcome.val] \in Entries(prev_doc)
    /\ ret.op = "operator[]" /\ is_object(prev_doc) /\ ~HasKey(prev_doc, ret.key) =>
          /\ is_object(doc)
          /\ Len(doc.obj) = Len(prev_doc.obj) + 1
          /\ Entries(doc) =
                Entries(prev_doc) \cup {[key |-> ret.key, val |-> value_null]}
          /\ ret.outcome = Returns(value_null)

\* operator[] has added an entry to an object that had entries
C8_Witness ==
    /\ ret.op = "operator[]"
    /\ is_object(prev_doc)
    /\ Len(prev_doc.obj) >= 1
    /\ ~HasKey(prev_doc, ret.key)
    /\ Len(doc.obj) = Len(prev_doc.obj) + 1

(***************************************************************************)
(* Properties of the number grammar (SpecParse).                           *)
(***************************************************************************)
\* a number of t starts with a 0 that another digit follows
HasLeadingZero(t) ==
    \E i \in 1..Len(t) :
        /\ t[i] = Ch.zero
        /\ isdigit(ByteAt(t, i + 1))
        /\ ~ScanState(t, i).in_string
        /\ i = 1 \/ t[i - 1] \notin (NumberBytes \ {Ch.minus})

\* a '.' or an exponent marker of a number of t that no digit follows
HasDanglingMark(t) ==
    \E i \in 2..Len(t) :
        /\ t[i] \in {Ch.dot, Ch.e, Ch.E}
        /\ isdigit(t[i - 1])
        /\ ~ScanState(t, i).in_string
        /\ ~isdigit(ByteAt(t, i + 1))
        /\ ~ /\ t[i] # Ch.dot
             /\ ByteAt(t, i + 1) \in {Ch.plus, Ch.minus}
             /\ isdigit(ByteAt(t, i + 2))

\* t is whitespace, one number literal, whitespace
IsNumberText(t) ==
    /\ IsJsonText(t)
    /\ ByteAt(t, RefSkipWs(t, 1)) = Ch.minus \/ isdigit(ByteAt(t, RefSkipWs(t, 1)))

\* C11: a text in which the integer part of a number has a leading zero
\* before another digit, or in which a '.' or an exponent marker is not
\* followed by a digit, is refused with a parse_exception; a number text
\* without fraction and exponent gives an integer-tagged value and a number
\* text with a fraction or an exponent gives a number-tagged value.
C11_StrictNumberGrammar ==
    Parsed =>
        /\ HasLeadingZero(json_text) \/ HasDanglingMark(json_text) => Threw
        /\ IsNumberText(json_text) /\ ~HasPoint(json_text) /\ ~Threw =>
              result.ok /\ is_integer(result.val)
        /\ IsNumberText(json_text) /\ HasPoint(json_text) /\ ~Threw =>
              result.ok /\ is_number(result.val)

(***************************************************************************)
(* Properties of the layout of to_string (SpecRender).                     *)
(***************************************************************************)
LayoutSpaces(n) == [k \in 1..n |-> Ch.space]

\* newline and (depth * indent) spaces in pretty mode, nothing in compact mode
LayoutBreak(depth, pretty) ==
    IF pretty THEN <<Ch.lf>> \o LayoutSpaces(depth * default_indent_size)
    ELSE <<>>

RECURSIVE Layout(_, _, _)
RECURSIVE LayoutItems(_, _, _, _)

\* the elements or members of a container from item k on, each behind a
\* break of depth d, with commas between them
LayoutItems(v, k, d, pretty) ==
    LET n == IF is_array(v) THEN Len(v.arr) ELSE Len(v.obj)
        item == IF is_array(v) THEN Layout(v.arr[k], d, pretty)
                ELSE to_string(value_string(v.obj[k].key), FALSE)
                     \o <<Ch.colon>>
                     \o (IF pretty THEN <<Ch.space>> ELSE <<>>)
                     \o Layout(v.obj[k].val, d, pretty)
    IN  IF k > n THEN <<>>
        ELSE LayoutBreak(d, pretty) \o item
             \o (IF k < n THEN <<Ch.comma>> ELSE <<>>)
             \o LayoutItems(v, k + 1, d, pretty)

\* the text of v when v stands at nesting depth d
Layout(v, d, pretty) ==
    IF is_array(v)
    THEN IF v.arr = <<>> THEN <<Ch.lbracket, Ch.rbracket>>
         ELSE <<Ch.lbracket>> \o LayoutItems(v, 1, d + 1, pretty)
              \o LayoutBreak(d, pretty) \o <<Ch.rbracket>>
    ELSE IF is_object(v)
    THEN IF v.obj = <<>> THEN <<Ch.lbrace, Ch.rbrace>>
         ELSE <<Ch.lbrace>> \o LayoutItems(v, 1, d + 1, pretty)
              \o LayoutBreak(d, pretty) \o <<Ch.rbrace>>
    ELSE to_string(v, FALSE)

\* C12: in both modes an empty array is rendered as [] and an empty object
\* as {} at every depth; in pretty mode every element or member of a
\* non-empty container at depth d stands on a line of its own behind
\* (d+1)*indent spaces, and the closing bracket or brace on a line of its own
\* behind d*indent spaces.
C12_ContainerLayout ==
    out.rendered => out.text = Layout(out.val, 0, out.pretty)

\* a pretty rendering of an array that holds an object of two members
C12_Witness ==
    /\ out.rendered
    /\ out.pretty
    /\ is_array(out.val)
    /\ Len(out.val.arr) = 1
    /\ is_object(out.val.arr[1])
    /\ Len(out.val.arr[1].obj) = 2

(***************************************************************************)
(* Properties of one run of parse (SpecParse).                             *)
(***************************************************************************)
\* the run ended the way parse is declared to end
EndedByReturnOrThrow == result.ok \/ Threw

\* C13: a run of parse ends after finitely many steps by returning a value
\* or by raising a parse_exception, and the cursor it ends with (the position
\* a parse_exception carries included) lies between 0 and the length of the
\* text, so no byte at or beyond the length was read.
C13_ParseRunEndsInBounds ==
    Parsed =>
        /\ EndedByReturnOrThrow
        /\ EndedByReturnOrThrow => result.pos \in 0..Len(json_text)

(***************************************************************************)
(* Properties of a serializer that is called again (SpecSerializer).       *)
(***************************************************************************)
\* what a serializer constructed for this one call gives
FreshText(pretty, indent_size, v) ==
    serialize(serializer(pretty, indent_size), v).oss

\* an array or an object with something in it
IsNonEmptyContainer(v) ==
    \/ is_array(v) /\ v.arr # <<>>
    \/ is_object(v) /\ v.obj # <<>>

\* C14: current_indent_ is 0 before and after every call of serialize, and
\* inside the call it is the number of non-empty containers around the place
\* being written (the indentation written there says so); so a call of
\* serialize on a serializer that was used before gives the text a fresh
\* serializer gives.
C14_IndentBalanced ==
    /\ ser.current_indent_ = 0
    /\ out.rendered =>
           out.text = FreshText(ser.pretty_, ser.indent_size_, out.val)
    /\ out.rendered /\ ser.indent_size_ = default_indent_size =>
           out.text = Layout(out.val, 0, ser.pretty_)

\* a pretty serializer called again, on an array that holds a non-empty
\* object, after it has been called before
C14_Witness ==
    /\ out.rendered
    /\ ret.op = "serialize"
    /\ ret.again
    /\ ser.pretty_
    /\ is_array(out.val)
    /\ Len(out.val.arr) = 1
    /\ IsNonEmptyContainer(out.val.arr[1])

(***************************************************************************)
(* Properties of type() and the is_* predicates (SpecValue).               *)
(***************************************************************************)
\* how many of the seven predicates hold of v
PredicatesTrue(v) ==
    Cardinality({ i \in 1..7 :
        <<is_null(v), is_boolean(v), is_number(v), is_integer(v),
          is_string(v), is_array(v), is_object(v)>>[i] })

\* C15: of the value the caller holds exactly one of the seven is_*
\* predicates is true, and type() reports the tag of that predicate: it is
\* value_type::integer exactly when is_integer() holds, value_type::number
\* exactly when is_number() holds, and likewise for the other five tags.
C15_TypeAgreesWithPredicates ==
    /\ PredicatesTrue(doc) = 1
    /\ type(doc) = value_type.integer <=> is_integer(doc)
    /\ type(doc) = value_type.number <=> is_number(doc)
    /\ type(doc) = value_type.null <=> is_null(doc)
    /\ type(doc) = value_type.boolean <=> is_boolean(doc)
    /\ type(doc) = value_type.string <=> is_string(doc)
    /\ type(doc) = value_type.array <=> is_array(doc)
    /\ type(doc) = value_type.object <=> is_object(doc)

====
